---- MODULE Spec2Model ----
(***************************************************************************)
(* CodebaseOverviewModal (src/components/CodebaseOverviewModal.tsx).       *)
(*                                                                         *)
(* The component keeps three pieces of React state (isLoading,             *)
(* overviewContent, error), receives the isOpen prop from its parent, and  *)
(* runs handleGenerate, an async function with two suspension points: the  *)
(* await of githubService.getAllFileContents and the await of              *)
(* generateCodebaseOverview.  Every call of handleGenerate is an entry of  *)
(* `attempts`; its pc says at which await it is suspended.                 *)
(*                                                                         *)
(* Text that is only stored and compared (overview, error message) is a    *)
(* TLA+ string.  Text whose line structure matters (paths, file contents,  *)
(* the concatenated document) is a sequence of tokens, where NL is the     *)
(* line feed and HDR / SEP are the two fixed fragments of the template.    *)
(***************************************************************************)
EXTENDS Integers, Sequences, FiniteSets, TLC

VARIABLES
  isOpen,           \* prop isOpen (line 24)
  isLoading,        \* useState(false) (line 30)
  overviewContent,  \* useState('') (line 31)
  error,            \* useState<string | null>(null) (line 32): Null or <<message>>
  marked,           \* whether window.marked is defined (lines 7-13, 76)
  attempts,         \* the calls of handleGenerate, in the order they were started
  lastEvent,        \* history: the kind of the last step taken
  files,            \* assembler's specification: the allFiles of lines 49-55
  document,         \* assembler's specification: Null or <<concatenatedContent>>
  view              \* render's specification: Null or <<what the component returned>>

vars == <<isOpen, isLoading, overviewContent, error, marked, attempts, lastEvent,
          files, document, view>>

orchestrator == <<isOpen, isLoading, overviewContent, error, marked, attempts, lastEvent>>

----------------------------------------------------------------------------
(* Bounds *)

\* handleGenerate is called at most this many times in one behaviour
MaxAttempts == 2

\* longest file content, in tokens, given to the assembler's specification
MaxContentLen == 1

----------------------------------------------------------------------------
(* Values *)

\* null of `string | null`; a string s is held as <<s>>
Null == <<>>

Some(s) == <<s>>

\* the line feed
NL == "\n"

\* "// Path: " of the template (line 57)
HDR == "// Path: "

\* the line of '=' of the template (lines 58 and 62)
SEP == "// ==================================================================================="

\* the message of the Error thrown when allFiles is empty (line 52)
EmptyInputMessage == "No readable files found in the repository to generate an overview."

\* the fallback of the catch block for a thrown value that is not an Error (line 69)
UnknownErrorMessage == "An unknown error occurred."

\* the prefix of the message the catch block stores (line 70)
FailurePrefix == "Failed to generate overview: "

----------------------------------------------------------------------------
(* Inputs: what the collaborators can answer *)

\* values a rejected promise can carry: an Error with a message, or something else
Rejections ==
  { [isError |-> TRUE,  message |-> "quota exceeded"],
    [isError |-> FALSE, message |-> "" ] }

\* texts generateCodebaseOverview can resolve with (a Promise<string>)
Overviews == { "", "## Summary" }

File(p, c) == [path |-> p, content |-> c]

\* results getAllFileContents can resolve with in the orchestrator's specification
FetchResults ==
  { <<>>,
    << File(<<"a">>, <<"x">>) >>,
    << File(<<"a">>, <<"x">>), File(<<"b">>, <<"y", NL, "z">>) >> }

\* what a path or a content is made of: a plain character, the line feed, and
\* the two fixed fragments of the template, which a content may coincide with
Tokens == { "x", NL, HDR, SEP }

\* paths of the files of a tree; a path holds no "//", so neither HDR nor SEP
Paths == { <<"a">>, <<"b">>, <<"a", NL>> }

Contents == UNION { [1..n -> Tokens] : n \in 0..MaxContentLen }

Files == { File(p, c) : p \in Paths, c \in Contents }

HasDistinctPaths(fs) ==
  \A i, j \in 1..Len(fs) : fs[i].path = fs[j].path => i = j

\* the sequences of one or more files with pairwise different paths
AssemblerInputs ==
  { fs \in UNION { [1..n -> Files] : n \in 1..Cardinality(Paths) } : HasDistinctPaths(fs) }

----------------------------------------------------------------------------
(* The assembler: lines 55-64 *)

\* mutant of Block: the template does not start with a line feed
BlockWithoutLeadingLineFeed(file) ==
  <<HDR>> \o file.path \o <<NL, SEP, NL, NL>> \o file.content \o <<NL, NL, SEP, NL>>

\* mutant of Block: the closing separator line is missing
BlockWithoutClosingSeparator(file) ==
  <<NL, HDR>> \o file.path \o <<NL, SEP, NL, NL>> \o file.content \o <<NL>>

\* the template literal of lines 56-63, for one file
Block(file) ==
  <<NL, HDR>> \o file.path \o <<NL, SEP, NL, NL>> \o file.content \o <<NL, NL, SEP, NL>>

\* Array.prototype.join
RECURSIVE Join(_, _)
Join(parts, sep) ==
  IF Len(parts) = 0 THEN <<>>
  ELSE IF Len(parts) = 1 THEN parts[1]
  ELSE parts[1] \o sep \o Join(Tail(parts), sep)

\* mutant of ConcatenatedContent: join('') instead of join('\n')
ConcatenatedContentJoinedBare(allFiles) ==
  Join([i \in 1..Len(allFiles) |-> Block(allFiles[i])], <<>>)

\* allFiles.map(file => `...`).join('\n')
ConcatenatedContent(allFiles) ==
  Join([i \in 1..Len(allFiles) |-> Block(allFiles[i])], <<NL>>)

----------------------------------------------------------------------------
(* The catch block: lines 68-70 *)

\* mutant of ErrorMessage: the caught value's message is never read
ErrorMessageAlwaysUnknown(err) == UnknownErrorMessage

\* err instanceof Error ? err.message : 'An unknown error occurred.'
ErrorMessage(err) == IF err.isError THEN err.message ELSE UnknownErrorMessage

\* the argument of setError
FailureText(err) == FailurePrefix \o ErrorMessage(err)

\* the Error thrown at line 52
EmptyInputError == [isError |-> TRUE, message |-> EmptyInputMessage]

----------------------------------------------------------------------------
(* Rendering: lines 76-131 *)

\* window.marked.parse: the formatting engine, which wraps the text in markup
MarkedParse(markdown) == "<h2>" \o markdown \o "</h2>"

\* line 76
RenderedHtml ==
  IF overviewContent # "" /\ marked THEN MarkedParse(overviewContent) ELSE ""

\* the region <main> shows: the conditional chain of lines 104-131
Region ==
  IF isLoading THEN "loading"
  ELSE IF error # Null THEN "error"
  ELSE IF overviewContent # "" THEN "content"
  ELSE "idle"

\* mutant of MainContent: the regions are independent conditionals, not a chain
MainContentUnchained ==
  (IF isLoading THEN { [region |-> "loading", text |-> "Analyzing codebase..."] } ELSE {})
  \cup (IF error # Null THEN { [region |-> "error", text |-> error[1]] } ELSE {})
  \cup (IF overviewContent # "" THEN { [region |-> "content", text |-> RenderedHtml] } ELSE {})
  \cup (IF Region = "idle" THEN { [region |-> "idle", text |-> "Analyze Your Codebase"] } ELSE {})

\* the children of <main>: the nested conditional of lines 104-131, each region
\* with the text it shows
MainContent ==
  { CASE Region = "loading" -> [region |-> "loading", text |-> "Analyzing codebase..."]
      [] Region = "error"   -> [region |-> "error", text |-> error[1]]
      [] Region = "content" -> [region |-> "content", text |-> RenderedHtml]
      [] Region = "idle"    -> [region |-> "idle", text |-> "Analyze Your Codebase"] }

\* what the component returns: null when closed (lines 78-80), else the panel
Rendered == IF ~isOpen THEN {} ELSE MainContent

\* mutant of ButtonRendered: the error region offers the button too
ButtonRenderedInError == isOpen /\ ~isLoading /\ overviewContent = ""

\* mutant of ButtonRendered: the button is not hidden while loading
ButtonRenderedWhileLoading == isOpen /\ error = Null /\ overviewContent = ""

\* the "Generate Overview" button exists only in the idle region of an open panel
ButtonRendered == isOpen /\ Region = "idle"

----------------------------------------------------------------------------
(* Initial state *)

\* mutant of NewAttempt: the generation request is sent before the aggregation
NewAttemptGeneratesFirst ==
  [pc |-> "generating", stale |-> FALSE, allFiles |-> Null,
   request |-> Some(ConcatenatedContent(<<>>)), outcome |-> "none", rejection |-> Null]

NewAttempt ==
  [pc |-> "fetching",      \* suspended at the await of line 49
   stale |-> FALSE,        \* history: the panel was closed after this call started
   allFiles |-> Null,      \* Null or <<what getAllFileContents resolved with>>
   request |-> Null,       \* Null or <<the document sent to generateCodebaseOverview>>
   outcome |-> "none",     \* history: how the call ended
   rejection |-> Null]     \* history: Null or <<the value the catch block caught>>

\* the component as mounted: the useState initial values of lines 30-32
Mounted ==
  /\ isOpen = FALSE
  /\ isLoading = FALSE
  /\ overviewContent = ""
  /\ error = Null
  /\ attempts = <<>>
  /\ lastEvent = "mount"

Init ==
  /\ Mounted
  /\ marked \in BOOLEAN
  /\ files = <<>>
  /\ document = Null
  /\ view = Null

\* the assembler's specification starts from any allFiles that passed line 51
InitAssemble ==
  /\ Mounted
  /\ marked = FALSE
  /\ files \in AssemblerInputs
  /\ document = Null
  /\ view = Null

----------------------------------------------------------------------------
(* Actions *)

\* the parent sets isOpen to true; the effect of lines 34-41 runs and does nothing
Open ==
  /\ ~isOpen
  /\ isOpen' = TRUE
  /\ lastEvent' = "open"
  /\ UNCHANGED <<isLoading, overviewContent, error, marked, attempts, files, document, view>>

\* mutant of ResetEffect: the payload is cleared but isLoading is left alone
ResetEffectKeepsLoading ==
  /\ overviewContent' = ""
  /\ error' = Null
  /\ UNCHANGED isLoading

\* the body of the effect of lines 34-41 when isOpen is false
ResetEffect ==
  /\ overviewContent' = ""
  /\ error' = Null
  /\ isLoading' = FALSE

\* onClose: the parent sets isOpen to false and the effect resets the state
Close ==
  /\ isOpen
  /\ isOpen' = FALSE
  /\ ResetEffect
  /\ attempts' = [i \in 1..Len(attempts) |-> [attempts[i] EXCEPT !.stale = TRUE]]
  /\ lastEvent' = "reset"
  /\ UNCHANGED <<marked, files, document, view>>

\* mutant of StartGenerate: the call is made without entering Loading
StartGenerateWithoutLoading ==
  /\ error' = Null
  /\ overviewContent' = ""
  /\ attempts' = Append(attempts, NewAttempt)
  /\ UNCHANGED isLoading

\* the start of handleGenerate, up to the await of line 49
StartGenerate ==
  /\ isLoading' = TRUE
  /\ error' = Null
  /\ overviewContent' = ""
  /\ attempts' = Append(attempts, NewAttempt)

\* a click on "Generate Overview" (line 125)
ClickGenerate ==
  /\ ButtonRendered
  /\ Len(attempts) < MaxAttempts
  /\ StartGenerate
  /\ lastEvent' = "start"
  /\ UNCHANGED <<isOpen, marked, files, document, view>>

\* mutant of CatchFinally: no finally block, isLoading is not cleared
CatchWithoutFinally(err) ==
  /\ error' = Some(FailureText(err))
  /\ UNCHANGED <<isLoading, overviewContent>>

\* catch and finally (lines 68-73), for the caught value err
CatchFinally(err) ==
  /\ error' = Some(FailureText(err))
  /\ isLoading' = FALSE
  /\ UNCHANGED overviewContent

\* call i has ended in the catch block
Caught(i, err, how) ==
  [attempts[i] EXCEPT !.pc = "done", !.outcome = how, !.rejection = Some(err)]

\* mutant of FetchResolve: no check of allFiles.length
FetchResolveUnchecked(i, fs) ==
  /\ attempts[i].pc = "fetching"
  /\ attempts' = [attempts EXCEPT
       ![i].pc = "generating", ![i].allFiles = Some(fs),
       ![i].request = Some(ConcatenatedContent(fs))]
  /\ lastEvent' = "response"
  /\ UNCHANGED <<isLoading, overviewContent, error, isOpen, marked, files, document, view>>

\* getAllFileContents of call i resolves with fs (lines 49-66)
FetchResolve(i, fs) ==
  /\ attempts[i].pc = "fetching"
  /\ IF Len(fs) = 0
       THEN /\ CatchFinally(EmptyInputError)
            /\ attempts' = [attempts EXCEPT
                 ![i] = [Caught(i, EmptyInputError, "empty") EXCEPT !.allFiles = Some(fs)]]
       ELSE /\ attempts' = [attempts EXCEPT
                 ![i].pc = "generating", ![i].allFiles = Some(fs),
                 ![i].request = Some(ConcatenatedContent(fs))]
            /\ UNCHANGED <<isLoading, overviewContent, error>>
  /\ lastEvent' = "response"
  /\ UNCHANGED <<isOpen, marked, files, document, view>>

\* getAllFileContents of call i rejects with err
FetchReject(i, err) ==
  /\ attempts[i].pc = "fetching"
  /\ CatchFinally(err)
  /\ attempts' = [attempts EXCEPT ![i] = Caught(i, err, "fetchRejected")]
  /\ lastEvent' = "response"
  /\ UNCHANGED <<isOpen, marked, files, document, view>>

\* lines 67 and 72, for the overview the service returned
ApplyOverview(overview) ==
  /\ overviewContent' = overview
  /\ isLoading' = FALSE
  /\ UNCHANGED error

\* generateCodebaseOverview of call i resolves with overview
GenerateResolve(i, overview) ==
  /\ attempts[i].pc = "generating"
  /\ ApplyOverview(overview)
  /\ attempts' = [attempts EXCEPT ![i].pc = "done", ![i].outcome = "success"]
  /\ lastEvent' = "response"
  /\ UNCHANGED <<isOpen, marked, files, document, view>>

\* generateCodebaseOverview of call i rejects with err
GenerateReject(i, err) ==
  /\ attempts[i].pc = "generating"
  /\ CatchFinally(err)
  /\ attempts' = [attempts EXCEPT ![i] = Caught(i, err, "generateRejected")]
  /\ lastEvent' = "response"
  /\ UNCHANGED <<isOpen, marked, files, document, view>>

Respond(i) ==
  \/ \E fs \in FetchResults : FetchResolve(i, fs)
  \/ \E err \in Rejections : FetchReject(i, err)
  \/ \E overview \in Overviews : GenerateResolve(i, overview)
  \/ \E err \in Rejections : GenerateReject(i, err)

Next ==
  \/ Open
  \/ Close
  \/ ClickGenerate
  \/ \E i \in 1..Len(attempts) : \E fs \in FetchResults : FetchResolve(i, fs)
  \/ \E i \in 1..Len(attempts) : \E err \in Rejections : FetchReject(i, err)
  \/ \E i \in 1..Len(attempts) : \E overview \in Overviews : GenerateResolve(i, overview)
  \/ \E i \in 1..Len(attempts) : \E err \in Rejections : GenerateReject(i, err)

Spec == Init /\ [][Next]_vars

\* lines 55-64 applied to files
Assemble ==
  /\ document = Null
  /\ Len(files) > 0
  /\ document' = Some(ConcatenatedContent(files))
  /\ UNCHANGED <<orchestrator, files, view>>

NextAssemble == Assemble

SpecAssemble == InitAssemble /\ [][NextAssemble]_vars

\* the values setError is given: the failure texts of the catch block
FailureTexts == { FailureText(err) : err \in Rejections \cup { EmptyInputError } }

\* the render's specification starts from every combination of the props and
\* the three useState cells
InitRender ==
  /\ isOpen \in BOOLEAN
  /\ isLoading \in BOOLEAN
  /\ overviewContent \in Overviews
  /\ error \in { Null } \cup { Some(t) : t \in FailureTexts }
  /\ marked \in BOOLEAN
  /\ attempts = <<>>
  /\ lastEvent = "mount"
  /\ files = <<>>
  /\ document = Null
  /\ view = Null

\* the component function runs: lines 76-147
Render ==
  /\ view = Null
  /\ view' = Some(Rendered)
  /\ UNCHANGED <<orchestrator, files, document>>

NextRender == Render

SpecRender == InitRender /\ [][NextRender]_vars

\* the collaborators answer: while a request is outstanding, one is eventually
\* resolved or rejected
Settles == WF_vars(\E i \in 1..Len(attempts) : Respond(i))

FairSpec == Spec /\ Settles

----------------------------------------------------------------------------
(* Vocabulary of the properties *)

Calls == 1..Len(attempts)

\* GenerationState Idle: nothing loading, no payload
Idle == ~isLoading /\ overviewContent = "" /\ error = Null

Outstanding(i) == attempts[i].pc # "done"

\* the step ends call i
Ends(i) == attempts[i].pc # "done" /\ attempts'[i].pc = "done"

\* the number of generation requests issued so far
GenerationRequests == Cardinality({i \in Calls : attempts[i].request # Null})

\* what the success region shows: dangerouslySetInnerHTML of line 116
Displayed == RenderedHtml

----------------------------------------------------------------------------
(* C1 *)

\* C1: once the panel has been closed while a call was outstanding and no call
\* has been started since, the state is Idle, also after the response of that
\* call has arrived (the late response is discarded).
C1_LateResponseDiscarded ==
  (attempts # <<>> /\ \A i \in Calls : attempts[i].stale) => Idle

----------------------------------------------------------------------------
(* C2 *)

\* C2: in the state right after a start, a second start is not possible: the
\* only step that issues a request is the response to the aggregation, so no
\* second call of handleGenerate and no second aggregation request is made.
C2_NoSecondStart ==
  [][ lastEvent = "start" =>
        /\ Len(attempts') = Len(attempts)
        /\ (lastEvent' # "response" => GenerationRequests' = GenerationRequests) ]_vars

\* a start has just happened: one call is suspended at the aggregation and
\* the panel shows the loading region
C2_Witness ==
  /\ lastEvent = "start"
  /\ isOpen /\ isLoading
  /\ attempts[Len(attempts)].pc = "fetching"
  /\ Len(attempts) < MaxAttempts

----------------------------------------------------------------------------
(* C3 *)

\* C3: the three state variables never encode two states at once: no content
\* together with an error, and neither of them while loading.
C3_ExactlyOneState ==
  /\ ~(overviewContent # "" /\ error # Null)
  /\ ~(isLoading /\ (overviewContent # "" \/ error # Null))

----------------------------------------------------------------------------
(* C4 *)

\* C4: when the aggregation of a call resolves with zero files, the call ends
\* at once with error set to the failure text carrying the EmptyInput message,
\* isLoading false, and no generation request issued for it, then or later.
C4_EmptyInputFails ==
  /\ [][ \A i \in Calls :
           (attempts[i].allFiles = Null /\ attempts'[i].allFiles = Some(<<>>)) =>
             /\ error' = Some("Failed to generate overview: " \o EmptyInputMessage)
             /\ ~isLoading'
             /\ attempts'[i].pc = "done"
             /\ GenerationRequests' = GenerationRequests ]_vars
  /\ [](\A i \in Calls : attempts[i].allFiles = Some(<<>>) => attempts[i].request = Null)

\* a call whose aggregation resolved with zero files has ended in Failure
C4_Witness ==
  \E i \in Calls :
    /\ attempts[i].allFiles = Some(<<>>)
    /\ error = Some("Failed to generate overview: " \o EmptyInputMessage)
    /\ lastEvent = "response"

----------------------------------------------------------------------------
(* C5 *)

\* C5: when the generation request of the most recently started call rejects,
\* error becomes the prefix followed by the Error's message, or by the generic
\* fallback when the rejection is not an Error, and overviewContent is empty.
C5_GenerationRejectionFails ==
  [][ LET n == Len(attempts) IN
        (n > 0 /\ attempts[n].pc = "generating" /\ attempts'[n].outcome = "generateRejected") =>
          LET err == attempts'[n].rejection[1] IN
            /\ err.isError => error' = Some("Failed to generate overview: " \o err.message)
            /\ ~err.isError => error' = Some("Failed to generate overview: An unknown error occurred.")
            /\ overviewContent' = "" ]_vars

----------------------------------------------------------------------------
(* C6 *)

\* C6: every step that takes the panel from open to closed ends in Idle,
\* whatever the state before and whether or not a call is outstanding.
C6_ResetUnconditional ==
  [][ (isOpen /\ ~isOpen') => (~isLoading' /\ overviewContent' = "" /\ error' = Null) ]_vars

\* the panel has just been closed while a call was outstanding
C6_Witness ==
  /\ lastEvent = "reset"
  /\ ~isOpen
  /\ \E i \in Calls : Outstanding(i)
  /\ Idle

----------------------------------------------------------------------------
(* C7 *)

\* C7: if every issued request is eventually answered, isLoading = TRUE leads
\* to isLoading = FALSE; and a call that fails (aggregation rejected, no files,
\* generation rejected) ends in the same step with an error stored and
\* isLoading false.
C7_LeavesLoading ==
  /\ (isLoading ~> ~isLoading)
  /\ [][ \A i \in Calls :
           (Outstanding(i) /\ attempts'[i].rejection # Null) =>
             (attempts'[i].pc = "done" /\ error' # Null /\ ~isLoading') ]_vars

\* a call has failed and the state is no longer loading
C7_Witness ==
  /\ \E i \in Calls : attempts[i].outcome = "fetchRejected" /\ ~attempts[i].stale
  /\ ~isLoading
  /\ error # Null
  /\ isOpen

----------------------------------------------------------------------------
(* C8 *)

\* C8: in Success with non-empty content what is displayed is never empty: it
\* is the engine's rendering when the engine is available, and otherwise it
\* still is not empty.
C8_SuccessNeverEmpty ==
  (isOpen /\ Region = "content") =>
    /\ Displayed # ""
    /\ marked => Displayed = MarkedParse(overviewContent)

----------------------------------------------------------------------------
(* Reading the assembled document line by line *)

\* String.prototype.split('\n') of a token sequence
RECURSIVE SplitLines(_)
SplitLines(s) ==
  IF s = <<>> THEN << <<>> >>
  ELSE IF Head(s) = NL THEN << <<>> >> \o SplitLines(Tail(s))
  ELSE LET rest == SplitLines(Tail(s))
       IN  << <<Head(s)>> \o rest[1] >> \o Tail(rest)

IsHeaderLine(line) == Len(line) > 0 /\ line[1] = HDR

IsSeparatorLine(line) == line = <<SEP>>

\* the indices of the lines of L that satisfy Test, in increasing order
LinesWhere(L, Test(_)) ==
  SelectSeq([i \in 1..Len(L) |-> i], LAMBDA i : Test(L[i]))

\* the document read as blocks: as many header lines as files, each followed
\* by the opening separator, and between the k-th pair of separator lines a
\* blank line, the k-th content, a blank line
ReadsAsBlocksOf(doc, fs) ==
  LET L == SplitLines(doc)
      H == LinesWhere(L, IsHeaderLine)
      S == LinesWhere(L, IsSeparatorLine)
  IN  /\ Len(H) = Len(fs)
      /\ Len(S) = 2 * Len(fs)
      /\ \A k \in 1..Len(fs) :
           /\ L[H[k]] = <<HDR>> \o fs[k].path
           /\ S[2 * k - 1] = H[k] + 1
           /\ S[2 * k] >= S[2 * k - 1] + 4
           /\ L[S[2 * k - 1] + 1] = <<>>
           /\ L[S[2 * k] - 1] = <<>>
           /\ Join(SubSeq(L, S[2 * k - 1] + 2, S[2 * k] - 2), <<NL>>) = fs[k].content

\* no path holds a line feed, and no line of a content starts with the header
\* prefix or is the separator line
FreeOfTemplateSyntax(fs) ==
  \A k \in 1..Len(fs) :
    /\ \A j \in 1..Len(fs[k].path) : fs[k].path[j] # NL
    /\ \A line \in { SplitLines(fs[k].content)[j] : j \in 1..Len(SplitLines(fs[k].content)) } :
         ~IsHeaderLine(line) /\ ~IsSeparatorLine(line)

----------------------------------------------------------------------------
(* C9 *)

\* C9 as stated: for every non-empty allFiles the document reads as one block
\* per file, in input order, each with its path in its header and its content
\* verbatim between its separators, and as many blocks as files.
C9_OneBlockPerFile ==
  document # Null => ReadsAsBlocksOf(document[1], files)

\* C9 as amended: the same, for every non-empty allFiles in which no path holds
\* a line feed and no content has a line that starts with the header prefix
\* or is the separator line.
C9_OneBlockPerCleanFile ==
  (document # Null /\ FreeOfTemplateSyntax(files)) => ReadsAsBlocksOf(document[1], files)

\* two files free of template syntax, one of them with a line feed in its
\* content, have been assembled
C9_Witness ==
  /\ document # Null
  /\ Len(files) = 2
  /\ FreeOfTemplateSyntax(files)
  /\ files[1].content = <<NL>>
  /\ files[2].content = <<"x">>

----------------------------------------------------------------------------
(* C10 *)

\* C10: the response of a call that is no longer the current one (the panel
\* was closed after it started and a later call has been started) changes none
\* of overviewContent, error and isLoading.
C10_StaleResultNotApplied ==
  [][ \A i \in Calls :
        (attempts[i].stale /\ i < Len(attempts) /\ Ends(i)) =>
          UNCHANGED <<overviewContent, error, isLoading>> ]_vars

----------------------------------------------------------------------------
(* C11 *)

\* C11: at most one call of handleGenerate is outstanding (waiting for the
\* aggregation or for the generation) in every reachable state, also when the
\* panel was closed while a request was in flight.
C11_SingleFlight ==
  Cardinality({i \in Calls : Outstanding(i)}) <= 1

----------------------------------------------------------------------------
(* C12 *)

\* C12: a call has a generation request only after its aggregation resolved
\* with at least one file, the request carries the document that reads as the
\* blocks of exactly those files, a call waiting for the aggregation has no
\* request, and a request once issued is never replaced by another.
C12_GenerationAfterAggregation ==
  /\ [](\A i \in Calls :
          /\ attempts[i].pc = "fetching" => attempts[i].request = Null
          /\ attempts[i].pc = "generating" => attempts[i].request # Null
          /\ attempts[i].request # Null =>
               /\ attempts[i].allFiles # Null
               /\ Len(attempts[i].allFiles[1]) > 0
               /\ ReadsAsBlocksOf(attempts[i].request[1], attempts[i].allFiles[1]))
  /\ [][ \A i \in Calls :
           /\ attempts[i].request # Null => attempts'[i].request = attempts[i].request
           /\ (attempts[i].request = Null /\ attempts'[i].request # Null) =>
                (attempts[i].pc = "fetching" /\ attempts[i].allFiles = Null) ]_vars

\* a call is waiting for the generation service with the document of two files
C12_Witness ==
  \E i \in Calls :
    /\ attempts[i].pc = "generating"
    /\ attempts[i].request # Null
    /\ Len(attempts[i].allFiles[1]) = 2

----------------------------------------------------------------------------
(* C13 *)

\* C13: when getAllFileContents of a call rejects, the call ends in the same
\* step with error set to the prefix followed by the rejection's message (the
\* generic fallback when the rejection has none), isLoading false, and no
\* generation request for that call, then or later.
C13_AggregationRejectionFails ==
  /\ [][ \A i \in Calls :
           (attempts[i].pc = "fetching" /\ attempts'[i].outcome = "fetchRejected") =>
             LET err == attempts'[i].rejection[1] IN
               /\ err.isError => error' = Some("Failed to generate overview: " \o err.message)
               /\ ~err.isError => error' = Some("Failed to generate overview: An unknown error occurred.")
               /\ ~isLoading'
               /\ attempts'[i].pc = "done"
               /\ GenerationRequests' = GenerationRequests ]_vars
  /\ [](\A i \in Calls : attempts[i].outcome = "fetchRejected" => attempts[i].request = Null)

\* the aggregation of the current call was rejected with an Error and the
\* panel shows the failure
C13_Witness ==
  /\ attempts # <<>>
  /\ attempts[Len(attempts)].outcome = "fetchRejected"
  /\ attempts[Len(attempts)].rejection[1].isError
  /\ error = Some("Failed to generate overview: quota exceeded")
  /\ isOpen /\ ~isLoading

----------------------------------------------------------------------------
(* C14 *)

\* C14: every step that starts a call ends with isLoading true, error null and
\* overviewContent empty, and the new call is then still waiting for the
\* aggregation, with nothing of it applied.
C14_StartClearsPayload ==
  [][ Len(attempts') > Len(attempts) =>
        /\ isLoading' /\ error' = Null /\ overviewContent' = ""
        /\ Len(attempts') = Len(attempts) + 1
        /\ attempts'[Len(attempts')].pc = "fetching"
        /\ attempts'[Len(attempts')].allFiles = Null
        /\ attempts'[Len(attempts')].outcome = "none" ]_vars

\* a call has just been started after an earlier call had ended in Failure
C14_Witness ==
  /\ lastEvent = "start"
  /\ Len(attempts) = 2
  /\ attempts[1].outcome = "generateRejected"
  /\ isLoading /\ error = Null /\ overviewContent = ""

----------------------------------------------------------------------------
(* C15 *)

\* the lines of the document after the closing separator line of block k and
\* before the header line of block k + 1
LinesBetweenBlocks(doc, k) ==
  LET L == SplitLines(doc)
      H == LinesWhere(L, IsHeaderLine)
      S == LinesWhere(L, IsSeparatorLine)
  IN  SubSeq(L, S[2 * k] + 1, H[k + 1] - 1)

\* C15 as stated, on the inputs whose header and separator lines can be told
\* from their contents: between the closing separator line of block k and the
\* header line of block k + 1 there is exactly one empty line.
C15_OneBlankLineBetweenBlocks ==
  (document # Null /\ Len(files) >= 2 /\ FreeOfTemplateSyntax(files)) =>
    \A k \in 1..(Len(files) - 1) : LinesBetweenBlocks(document[1], k) = << <<>> >>

\* C15 as amended: on the same inputs there are exactly two empty lines
\* between the closing separator line of block k and the header line of
\* block k + 1.
C15_TwoBlankLinesBetweenBlocks ==
  (document # Null /\ Len(files) >= 2 /\ FreeOfTemplateSyntax(files)) =>
    \A k \in 1..(Len(files) - 1) : LinesBetweenBlocks(document[1], k) = << <<>>, <<>> >>

\* two files free of template syntax have been assembled, the second one empty
C15_Witness ==
  /\ document # Null
  /\ Len(files) = 2
  /\ FreeOfTemplateSyntax(files)
  /\ files[1].content = <<"x">>
  /\ files[2].content = <<>>

----------------------------------------------------------------------------
(* C16 *)

\* C16 as stated: the document of a single file is the six parts, one per
\* line, and nothing else: header, separator, blank, content, blank, separator.
C16_SingleFileIsSixParts ==
  (document # Null /\ Len(files) = 1) =>
    document[1] = Join(<< <<HDR>> \o files[1].path, <<SEP>>, <<>>,
                          files[1].content, <<>>, <<SEP>> >>, <<NL>>)

\* C16 as amended: the document of a single file is an empty line, the six
\* parts one per line, and a line feed that ends the closing separator line.
C16_SingleFileIsFramedSixParts ==
  (document # Null /\ Len(files) = 1) =>
    document[1] = Join(<< <<>>, <<HDR>> \o files[1].path, <<SEP>>, <<>>,
                          files[1].content, <<>>, <<SEP>>, <<>> >>, <<NL>>)

\* the single file a with content x has been assembled
C16_Witness ==
  /\ document # Null
  /\ files = << File(<<"a">>, <<"x">>) >>

----------------------------------------------------------------------------
(* C17 *)

\* C17: an open panel shows exactly one region for every combination of
\* isLoading, error and overviewContent, chosen with priority loading, error,
\* content, idle; the loading region shows neither the content nor the error,
\* and the error region shows the message verbatim.  A closed panel shows none.
C17_OneRegionByPriority ==
  view # Null =>
    /\ ~isOpen => view[1] = {}
    /\ isOpen =>
         /\ Cardinality(view[1]) = 1
         /\ \A shown \in view[1] :
              /\ shown.region = "loading" <=> isLoading
              /\ shown.region = "error" <=> (~isLoading /\ error # Null)
              /\ shown.region = "content" <=>
                   (~isLoading /\ error = Null /\ overviewContent # "")
              /\ shown.region = "idle" <=>
                   (~isLoading /\ error = Null /\ overviewContent = "")
              /\ shown.region = "error" => shown.text = error[1]
              /\ shown.region = "loading" =>
                   /\ error # Null => shown.text # error[1]
                   /\ overviewContent # "" =>
                        shown.text \notin { overviewContent, MarkedParse(overviewContent) }

\* an open panel was rendered while loading with both a content and an error set
C17_Witness ==
  /\ view # Null
  /\ isOpen /\ isLoading
  /\ error # Null
  /\ overviewContent # ""
  /\ \E shown \in view[1] : shown.region = "loading"

----------------------------------------------------------------------------
(* C18 *)

\* C18: a call of handleGenerate starts only from an open panel showing the
\* idle region (isLoading false, error null, overviewContent empty); while an
\* open panel shows a content or an error no start is possible and closing
\* is; and an open idle panel can start a call while fewer than MaxAttempts
\* calls have been made.
C18_StartOnlyFromIdle ==
  /\ [][ Len(attempts') > Len(attempts) =>
           (isOpen /\ ~isLoading /\ error = Null /\ overviewContent = "") ]_vars
  /\ []( (isOpen /\ ~isLoading /\ (error # Null \/ overviewContent # "")) =>
           (~ENABLED ClickGenerate /\ ENABLED Close /\ ~ENABLED Open) )
  /\ []( (isOpen /\ Idle /\ Len(attempts) < MaxAttempts) => ENABLED ClickGenerate )

\* a second call has been started after the first one ended in Success and
\* the panel was closed and opened again
C18_Witness ==
  /\ lastEvent = "start"
  /\ Len(attempts) = 2
  /\ attempts[1].outcome = "success"
  /\ attempts[1].stale
  /\ ~attempts[2].stale

----------------------------------------------------------------------------
(* C19 *)

\* C19: whenever the panel is open, the most recently started call has not
\* ended and the panel has not been closed since that call started, isLoading
\* is true.
C19_LoadingUntilCurrentEnds ==
  (isOpen /\ attempts # <<>> /\ Outstanding(Len(attempts)) /\ ~attempts[Len(attempts)].stale)
    => isLoading

====
